---- MODULE Spec2Model ----
(***************************************************************************)
(* A model of the song filter parser of MPD, src/src/song/Filter.cxx:      *)
(* the lexical primitives, SongFilter::ParseExpression, the two            *)
(* SongFilter::Parse overloads, and the introspection methods of           *)
(* SongFilter (HasFoldCase, HasOtherThanBase, GetBase, WithoutBasePrefix). *)
(*                                                                         *)
(* A C string is a sequence of one-character strings; the terminating NUL  *)
(* is the character read at position Len(s) + 1.  A cursor (a char pointer)  *)
(* is a position in that sequence, starting at 1.  A function that throws  *)
(* returns a record with ok = FALSE, the message in err and, in pos, the   *)
(* value the caller's cursor (a reference) has when the exception leaves.  *)
(***************************************************************************)
EXTENDS Integers, Sequences, FiniteSets, TLC

VARIABLES
    and_filter,   \* SongFilter::and_filter: the children of the root And
    call,         \* the last call on the SongFilter: arguments, outcome
    result,       \* the SongFilter returned by the last WithoutBasePrefix
    text,         \* lexical primitives: the input string
    cursor,       \* lexical primitives: the caller's cursor, the reference s
    lex           \* lexical primitives: the primitive's outcome

vars == <<and_filter, call, result, text, cursor, lex>>

----------------------------------------------------------------------------
(* Characters and C strings *)

NUL == "NUL"

LowerLetters ==
    <<"a", "b", "c", "d", "e", "f", "g", "h", "i", "j", "k", "l", "m",
      "n", "o", "p", "q", "r", "s", "t", "u", "v", "w", "x", "y", "z">>

UpperLetters ==
    <<"A", "B", "C", "D", "E", "F", "G", "H", "I", "J", "K", "L", "M",
      "N", "O", "P", "Q", "R", "S", "T", "U", "V", "W", "X", "Y", "Z">>

Digits == <<"0", "1", "2", "3", "4", "5", "6", "7", "8", "9">>

Range(f) == {f[i] : i \in DOMAIN f}

\* *p for a cursor p into the C string str
CharAt(str, p) == IF p \in 1..Len(str) THEN str[p] ELSE NUL

AlphaASCII == Range(LowerLetters) \cup Range(UpperLetters)

DigitASCII == Range(Digits)

LowerOfUpper ==
    [ch \in Range(UpperLetters) |->
        LowerLetters[CHOOSE i \in DOMAIN UpperLetters : UpperLetters[i] = ch]]

ValueOfDigit ==
    [ch \in Range(Digits) |-> (CHOOSE i \in DOMAIN Digits : Digits[i] = ch) - 1]

IsAlphaASCII(ch) == ch \in AlphaASCII

IsDigitASCII(ch) == ch \in DigitASCII

ToLowerASCII(ch) == IF ch \in DOMAIN LowerOfUpper THEN LowerOfUpper[ch] ELSE ch

DigitValue(ch) == ValueOfDigit[ch]

LowerString(str) == [i \in 1..Len(str) |-> ToLowerASCII(str[i])]

StringEqualsCaseASCII(a, b) == LowerString(a) = LowerString(b)

\* ch > 0 && ch <= 0x20, over the characters of the model
IsWhitespaceNotNull(ch) == ch \in {" ", "\t"}

RECURSIVE StripLeft(_, _)
StripLeft(str, p) ==
    IF IsWhitespaceNotNull(CharAt(str, p)) THEN StripLeft(str, p + 1) ELSE p

\* the position after prefix if str continues with it at p, else 0 (nullptr)
StringAfterPrefixAt(str, p, prefix) ==
    IF /\ p + Len(prefix) - 1 <= Len(str)
       /\ \A i \in 1..Len(prefix) : str[p + i - 1] = prefix[i]
    THEN p + Len(prefix)
    ELSE 0

StringAfterPrefixIgnoreCase(str, p, prefix) ==
    IF /\ p + Len(prefix) - 1 <= Len(str)
       /\ \A i \in 1..Len(prefix) :
              ToLowerASCII(str[p + i - 1]) = ToLowerASCII(prefix[i])
    THEN p + Len(prefix)
    ELSE 0

\* the outcome of a function that returns or throws
Returns(p, v) == [ok |-> TRUE, pos |-> p, val |-> v, err |-> ""]

Throws(p, msg) == [ok |-> FALSE, pos |-> p, val |-> <<>>, err |-> msg]

----------------------------------------------------------------------------
(* Filter types *)

W_file == <<"f", "i", "l", "e">>
W_filename == <<"f", "i", "l", "e", "n", "a", "m", "e">>
W_any == <<"a", "n", "y">>
W_base == <<"b", "a", "s", "e">>
W_modified_since ==
    <<"m", "o", "d", "i", "f", "i", "e", "d", "-", "s", "i", "n", "c", "e">>
W_added_since == <<"a", "d", "d", "e", "d", "-", "s", "i", "n", "c", "e">>
W_AudioFormat == <<"A", "u", "d", "i", "o", "F", "o", "r", "m", "a", "t">>
W_prio == <<"p", "r", "i", "o">>
W_AND == <<"A", "N", "D">>
W_Artist == <<"A", "r", "t", "i", "s", "t">>
W_Album == <<"A", "l", "b", "u", "m">>
W_Title == <<"T", "i", "t", "l", "e">>

\* tag_item_names[]: the first tags of the table, in its order
tag_item_names == <<W_Artist, W_Album, W_Title>>

TAG_NUM_OF_ITEM_TYPES == Len(tag_item_names)

LOCATE_TAG_BASE_TYPE == TAG_NUM_OF_ITEM_TYPES + 1
LOCATE_TAG_MODIFIED_SINCE == TAG_NUM_OF_ITEM_TYPES + 2
LOCATE_TAG_AUDIO_FORMAT == TAG_NUM_OF_ITEM_TYPES + 3
LOCATE_TAG_PRIORITY == TAG_NUM_OF_ITEM_TYPES + 4
LOCATE_TAG_FILE_TYPE == TAG_NUM_OF_ITEM_TYPES + 5
LOCATE_TAG_ANY_TYPE == TAG_NUM_OF_ITEM_TYPES + 6
LOCATE_TAG_ADDED_SINCE == TAG_NUM_OF_ITEM_TYPES + 7

\* the TagType of a name, compared ignoring case; TAG_NUM_OF_ITEM_TYPES if
\* there is none.  TagType values are 0-based.
tag_name_parse_i(name) ==
    IF \E i \in DOMAIN tag_item_names :
           StringEqualsCaseASCII(name, tag_item_names[i])
    THEN (CHOOSE i \in DOMAIN tag_item_names :
              StringEqualsCaseASCII(name, tag_item_names[i])) - 1
    ELSE TAG_NUM_OF_ITEM_TYPES

locate_parse_type(str) ==
    IF \/ StringEqualsCaseASCII(str, W_file)
       \/ StringEqualsCaseASCII(str, W_filename)
    THEN LOCATE_TAG_FILE_TYPE
    ELSE IF StringEqualsCaseASCII(str, W_any) THEN LOCATE_TAG_ANY_TYPE
    ELSE IF str = W_base THEN LOCATE_TAG_BASE_TYPE
    ELSE IF str = W_modified_since THEN LOCATE_TAG_MODIFIED_SINCE
    ELSE IF str = W_added_since THEN LOCATE_TAG_ADDED_SINCE
    ELSE IF StringEqualsCaseASCII(str, W_AudioFormat)
    THEN LOCATE_TAG_AUDIO_FORMAT
    ELSE IF StringEqualsCaseASCII(str, W_prio) THEN LOCATE_TAG_PRIORITY
    ELSE tag_name_parse_i(str)

----------------------------------------------------------------------------
(* Lexical primitives *)

IsTagNameChar(ch) == IsAlphaASCII(ch) \/ ch = "_" \/ ch = "-"

RECURSIVE FirstNonTagNameChar(_, _)
FirstNonTagNameChar(str, p) ==
    IF IsTagNameChar(CharAt(str, p)) THEN FirstNonTagNameChar(str, p + 1) ELSE p

\* ExpectWord taking the first character before it looks at it, as
\* ExpectQuoted does
ExpectWord_TakesFirst(str, p) ==
    LET end == FirstNonTagNameChar(str, p)
    IN  IF end = p
        THEN Throws(p + 1, "Word expected")
        ELSE Returns(StripLeft(str, end), SubSeq(str, p, end - 1))

ExpectWord(str, p) ==
    LET end == FirstNonTagNameChar(str, p)
    IN  IF end = p
        THEN Throws(p, "Word expected")
        ELSE Returns(StripLeft(str, end), SubSeq(str, p, end - 1))

ExpectFilterType(str, p) ==
    LET name == ExpectWord(str, p)
    IN  IF ~name.ok
        THEN name
        ELSE IF locate_parse_type(name.val) = TAG_NUM_OF_ITEM_TYPES
        THEN Throws(name.pos, "Unknown filter type: {}")
        ELSE Returns(name.pos, locate_parse_type(name.val))

IsQuote(ch) == ch = "\"" \/ ch = "'"

\* sizeof(buffer) in ExpectQuoted
BufferSize == 4096

\* One evaluation of the loop condition of ExpectQuoted and, if it holds, of
\* the loop body.  st.pos is s and st.buffer is buffer[0 .. length - 1] when
\* the condition is evaluated; c0 = s[0] and c1 = s[1] (read only after a
\* backslash).  status: "loop" goes on, "closed" left the loop, or the
\* message thrown.
\* the length check off by one
QuotedTooLong_Beyond(length) == length > BufferSize

QuotedTooLong(length) == length >= BufferSize

ExpectQuotedStep(quote, c0, c1, st) ==
    IF c0 = quote
    THEN [st EXCEPT !.status = "closed"]
    ELSE LET escaped == c0 = "\\"
             at == IF escaped THEN st.pos + 1 ELSE st.pos
             ch == IF escaped THEN c1 ELSE c0
         IN  IF ch = NUL
             THEN [st EXCEPT !.pos = at, !.status = "Closing quote not found"]
             ELSE [pos |-> at + 1,
                   buffer |-> Append(st.buffer, ch),
                   status |-> IF QuotedTooLong(Len(st.buffer) + 1)
                              THEN "Quoted value is too long"
                              ELSE "loop"]

\* at most n iterations of the loop of ExpectQuoted from state st, the first
\* half of them and then the rest
RECURSIVE ExpectQuotedSteps(_, _, _, _)
ExpectQuotedSteps(str, quote, st, n) ==
    IF n = 0 \/ st.status # "loop"
    THEN st
    ELSE IF n = 1
    THEN ExpectQuotedStep(quote, CharAt(str, st.pos),
                          CharAt(str, st.pos + 1), st)
    ELSE ExpectQuotedSteps(str, quote,
             ExpectQuotedSteps(str, quote, st, n \div 2), n - (n \div 2))

\* the loop of ExpectQuoted, run until it is left: every iteration moves s
\* on and the loop is left at the NUL, so Len(str) + 1 iterations end it
ExpectQuotedLoop(str, quote, st) ==
    ExpectQuotedSteps(str, quote, st, Len(str) + 1)

\* the state of ExpectQuoted when its loop is first reached
ExpectQuotedEntry(p) == [pos |-> p + 1, buffer |-> <<>>, status |-> "loop"]

\* what ExpectQuoted does once its loop has ended in state st
ExpectQuotedExit(str, st) ==
    IF st.status = "closed"
    THEN Returns(StripLeft(str, st.pos + 1), st.buffer)
    ELSE Throws(st.pos, st.status)

ExpectQuoted(str, p) ==
    IF ~IsQuote(CharAt(str, p))
    THEN Throws(p + 1, "Quoted string expected")
    ELSE ExpectQuotedExit(str,
             ExpectQuotedLoop(str, CharAt(str, p), ExpectQuotedEntry(p)))

----------------------------------------------------------------------------
(* String operators *)

\* StringFilter(value, fold_case, position, negated), and its regex if any
StringFilter(value, fold_case, position, negated, regex) ==
    [value |-> value, fold_case |-> fold_case, position |-> position,
     negated |-> negated, regex |-> regex]

operators ==
    <<
      [prefix |-> <<"c", "o", "n", "t", "a", "i", "n", "s", "_", "c", "s", " ">>,
       fold_case |-> FALSE, negated |-> FALSE, position |-> "ANYWHERE"],
      [prefix |-> <<"!", "c", "o", "n", "t", "a", "i", "n", "s", "_", "c", "s", " ">>,
       fold_case |-> FALSE, negated |-> TRUE, position |-> "ANYWHERE"],
      [prefix |-> <<"c", "o", "n", "t", "a", "i", "n", "s", "_", "c", "i", " ">>,
       fold_case |-> TRUE, negated |-> FALSE, position |-> "ANYWHERE"],
      [prefix |-> <<"!", "c", "o", "n", "t", "a", "i", "n", "s", "_", "c", "i", " ">>,
       fold_case |-> TRUE, negated |-> TRUE, position |-> "ANYWHERE"],
      [prefix |-> <<"s", "t", "a", "r", "t", "s", "_", "w", "i", "t", "h", "_", "c", "s", " ">>,
       fold_case |-> FALSE, negated |-> FALSE, position |-> "PREFIX"],
      [prefix |-> <<"!", "s", "t", "a", "r", "t", "s", "_", "w", "i", "t", "h", "_", "c", "s", " ">>,
       fold_case |-> FALSE, negated |-> TRUE, position |-> "PREFIX"],
      [prefix |-> <<"s", "t", "a", "r", "t", "s", "_", "w", "i", "t", "h", "_", "c", "i", " ">>,
       fold_case |-> TRUE, negated |-> FALSE, position |-> "PREFIX"],
      [prefix |-> <<"!", "s", "t", "a", "r", "t", "s", "_", "w", "i", "t", "h", "_", "c", "i", " ">>,
       fold_case |-> TRUE, negated |-> TRUE, position |-> "PREFIX"],
      [prefix |-> <<"e", "q", "_", "c", "s", " ">>,
       fold_case |-> FALSE, negated |-> FALSE, position |-> "FULL"],
      [prefix |-> <<"!", "e", "q", "_", "c", "s", " ">>,
       fold_case |-> FALSE, negated |-> TRUE, position |-> "FULL"],
      [prefix |-> <<"e", "q", "_", "c", "i", " ">>,
       fold_case |-> TRUE, negated |-> FALSE, position |-> "FULL"],
      [prefix |-> <<"!", "e", "q", "_", "c", "i", " ">>,
       fold_case |-> TRUE, negated |-> TRUE, position |-> "FULL"]
    >>

\* the four operators that take fold_case from the caller, in the order of
\* the if statements that test them
inherit_operators ==
    <<
      [prefix |-> <<"c", "o", "n", "t", "a", "i", "n", "s", " ">>,
       negated |-> FALSE, position |-> "ANYWHERE"],
      [prefix |-> <<"!", "c", "o", "n", "t", "a", "i", "n", "s", " ">>,
       negated |-> TRUE, position |-> "ANYWHERE"],
      [prefix |-> <<"s", "t", "a", "r", "t", "s", "_", "w", "i", "t", "h", " ">>,
       negated |-> FALSE, position |-> "PREFIX"],
      [prefix |-> <<"!", "s", "t", "a", "r", "t", "s", "_", "w", "i", "t", "h", " ">>,
       negated |-> TRUE, position |-> "PREFIX"]
    >>

HAVE_PCRE == TRUE

\* the operand of a string operator whose text ends before position after
StringOperand(str, after, fold_case, position, negated, regex) ==
    LET value == ExpectQuoted(str, StripLeft(str, after))
    IN  IF ~value.ok
        THEN value
        ELSE Returns(value.pos,
                 StringFilter(value.val, fold_case, position, negated, regex))

ParseStringFilter(str, p, fold_case) ==
    LET Matches(table) ==
            {i \in DOMAIN table :
                StringAfterPrefixIgnoreCase(str, p, table[i].prefix) # 0}
        First(set) == CHOOSE i \in set : \A j \in set : i <= j
        c0 == CharAt(str, p)
        c1 == CharAt(str, p + 1)
    IN  IF Matches(operators) # {}
        THEN LET op == operators[First(Matches(operators))]
             IN  StringOperand(str,
                     StringAfterPrefixIgnoreCase(str, p, op.prefix),
                     op.fold_case, op.position, op.negated, FALSE)
        ELSE IF Matches(inherit_operators) # {}
        THEN LET op == inherit_operators[First(Matches(inherit_operators))]
             IN  StringOperand(str,
                     StringAfterPrefixIgnoreCase(str, p, op.prefix),
                     fold_case, op.position, op.negated, FALSE)
        ELSE IF HAVE_PCRE /\ (c0 = "!" \/ c0 = "=") /\ c1 = "~"
        THEN StringOperand(str, p + 2, fold_case, "FULL", c0 = "!", TRUE)
        ELSE IF c0 = "!" /\ c1 = "="
        THEN StringOperand(str, p + 2, fold_case, "FULL", TRUE, FALSE)
        ELSE IF c0 # "=" \/ c1 # "="
        THEN Throws(p, "Unknown filter operator: {}")
        ELSE StringOperand(str, p + 2, fold_case, "FULL", FALSE, FALSE)

----------------------------------------------------------------------------
(* Numbers, time stamps and audio formats *)

RECURSIVE FirstNonDigit(_, _)
FirstNonDigit(str, p) ==
    IF IsDigitASCII(CharAt(str, p)) THEN FirstNonDigit(str, p + 1) ELSE p

RECURSIVE DecimalValue(_, _, _, _)
DecimalValue(str, p, end, acc) ==
    IF p >= end
    THEN acc
    ELSE DecimalValue(str, p + 1, end, acc * 10 + DigitValue(str[p]))

\* strtoul(str + p, &endptr, 10) and strtoull of the C library: optional
\* white space, an optional sign, decimal digits.  endptr is where the
\* conversion stopped, p itself if there are no digits.  The unsigned value is
\* digits if not negated, and 2^64 - digits (modulo 2^64) if negated; the
\* inputs of the model are too short to overflow it.
strtoul(str, p) ==
    LET RECURSIVE SkipSpace(_)
        SkipSpace(q) ==
            IF CharAt(str, q) \in {" ", "\t", "\n", "\r", "\f"}
            THEN SkipSpace(q + 1)
            ELSE q
        sign == SkipSpace(p)
        signed == CharAt(str, sign) \in {"+", "-"}
        first == IF signed THEN sign + 1 ELSE sign
        end == FirstNonDigit(str, first)
    IN  IF end = first
        THEN [endptr |-> p, negated |-> FALSE, digits |-> 0]
        ELSE [endptr |-> end,
              negated |-> CharAt(str, sign) = "-",
              digits |-> DecimalValue(str, first, end, 0)]

\* value > 0xff for the unsigned long value that strtoul returned
ExceedsPriority(value) ==
    IF value.negated /\ value.digits > 0 THEN TRUE ELSE value.digits > 255

\* ParseISO8601 accepts, in this model, a date YYYY-MM-DD
ParseISO8601(str) ==
    IF /\ Len(str) = 10
       /\ \A i \in {1, 2, 3, 4, 6, 7, 9, 10} : IsDigitASCII(str[i])
       /\ str[5] = "-" /\ str[8] = "-"
    THEN Returns(0, [iso |-> str])
    ELSE Throws(0, "Failed to parse ISO8601")

ParseTimeStamp(str) ==
    LET iso == ParseISO8601(str)
        value == strtoul(str, 1)
    IN  IF iso.ok
        THEN iso
        ELSE IF CharAt(str, value.endptr) = NUL /\ value.endptr > 1
        THEN Returns(0, [time_t |-> value])
        ELSE iso

\* ParseAudioFormat accepts, in this model, three fields separated by colons
ParseAudioFormat(str, mask) ==
    IF Cardinality({i \in DOMAIN str : str[i] = ":"}) = 2
    THEN Returns(0, [format |-> str, mask |-> mask])
    ELSE Throws(0, "Failed to parse audio format")

----------------------------------------------------------------------------
(* Filter nodes *)

TagSongFilter(tag, filter) == [kind |-> "TagMatch", tag |-> tag, filter |-> filter]

UriSongFilter(filter) == [kind |-> "UriMatch", filter |-> filter]

BaseSongFilter(value) == [kind |-> "Base", value |-> value]

ModifiedSinceSongFilter(instant) == [kind |-> "ModifiedSince", instant |-> instant]

AddedSinceSongFilter(instant) == [kind |-> "AddedSince", instant |-> instant]

AudioFormatSongFilter(value) == [kind |-> "AudioFormat", value |-> value]

PrioritySongFilter(value) == [kind |-> "Priority", value |-> value]

AndSongFilter(items) == [kind |-> "And", items |-> items]

NotSongFilter(child) == [kind |-> "Not", child |-> child]

\* ISongFilter::Clone: a deep copy, which is the same value
Clone(node) == node

----------------------------------------------------------------------------
(* SongFilter::ParseExpression *)

\* if (*s != ')') throw ...; s = StripLeft(s + 1); return node;
CloseParen(str, p, node) ==
    IF CharAt(str, p) # ")"
    THEN Throws(p, "')' expected")
    ELSE Returns(StripLeft(str, p + 1), node)

\* the branches of ParseExpression that follow ExpectFilterType, with s = p
ParseTimeFilter(str, p, since) ==
    LET value_s == ExpectQuoted(str, p)
        close == CloseParen(str, value_s.pos, <<>>)
        instant == ParseTimeStamp(value_s.val)
    IN  IF ~value_s.ok THEN value_s
        ELSE IF ~close.ok THEN close
        ELSE IF ~instant.ok THEN Throws(close.pos, instant.err)
        ELSE Returns(close.pos,
                 IF since = "modified"
                 THEN ModifiedSinceSongFilter(instant.val)
                 ELSE AddedSinceSongFilter(instant.val))

ParseBaseFilter(str, p) ==
    LET value == ExpectQuoted(str, p)
    IN  IF ~value.ok
        THEN value
        ELSE CloseParen(str, value.pos, BaseSongFilter(value.val))

ParseAudioFormatFilter(str, p) ==
    LET c0 == CharAt(str, p)
        c1 == CharAt(str, p + 1)
        quoted == ExpectQuoted(str, StripLeft(str, p + 2))
        value == ParseAudioFormat(quoted.val, c1 = "~")
    IN  IF ~(c0 = "=" /\ (c1 = "=" \/ c1 = "~"))
        THEN Throws(p, "'==' or '=~' expected")
        ELSE IF ~quoted.ok THEN quoted
        ELSE IF ~value.ok THEN Throws(quoted.pos, value.err)
        ELSE CloseParen(str, quoted.pos, AudioFormatSongFilter(value.val))

ParsePriorityFilter(str, p) ==
    LET start == StripLeft(str, p + 2)
        value == strtoul(str, start)
    IN  IF ~(CharAt(str, p) = ">" /\ CharAt(str, p + 1) = "=")
        THEN Throws(p, "'>=' expected")
        ELSE IF value.endptr = start
        THEN Throws(start, "Number expected")
        ELSE IF ExceedsPriority(value)
        THEN Throws(start, "Invalid priority value")
        ELSE IF CharAt(str, value.endptr) # ")"
        THEN Throws(start, "')' expected")
        ELSE Returns(StripLeft(str, value.endptr + 1),
                     PrioritySongFilter(value.digits))

ParseTagFilter(str, p, type, fold_case) ==
    LET string_filter == ParseStringFilter(str, p, fold_case)
        tag == IF type = LOCATE_TAG_ANY_TYPE THEN TAG_NUM_OF_ITEM_TYPES ELSE type
    IN  IF ~string_filter.ok
        THEN string_filter
        ELSE CloseParen(str, string_filter.pos,
                 IF type = LOCATE_TAG_FILE_TYPE
                 THEN UriSongFilter(string_filter.val)
                 ELSE TagSongFilter(tag, string_filter.val))

ParseTypedFilter(str, p, type, fold_case) ==
    IF type = LOCATE_TAG_MODIFIED_SINCE THEN ParseTimeFilter(str, p, "modified")
    ELSE IF type = LOCATE_TAG_ADDED_SINCE THEN ParseTimeFilter(str, p, "added")
    ELSE IF type = LOCATE_TAG_BASE_TYPE THEN ParseBaseFilter(str, p)
    ELSE IF type = LOCATE_TAG_AUDIO_FORMAT THEN ParseAudioFormatFilter(str, p)
    ELSE IF type = LOCATE_TAG_PRIORITY THEN ParsePriorityFilter(str, p)
    ELSE ParseTagFilter(str, p, type, fold_case)

\* ParseExpression(s, fold_case) with s = p.  The callers at lines 327 and
\* 358 have seen *s == '('; the caller in the AND loop (line 340) has not,
\* and with assert() compiled out the character at p is skipped unread.
RECURSIVE ParseExpression(_, _, _)
RECURSIVE ParseAndItems(_, _, _, _)

\* the while (true) loop of the AND list, with and_filter holding items
ParseAndItems(str, p, fold_case, items) ==
    LET item == ParseExpression(str, p, fold_case)
        word == ExpectWord(str, item.pos)
    IN  IF ~item.ok THEN item
        ELSE IF CharAt(str, item.pos) = ")"
        THEN Returns(StripLeft(str, item.pos + 1),
                     AndSongFilter(Append(items, item.val)))
        ELSE IF ~word.ok THEN word
        ELSE IF word.val # W_AND THEN Throws(word.pos, "'AND' expected")
        ELSE ParseAndItems(str, word.pos, fold_case, Append(items, item.val))

ParseExpression(str, p, fold_case) ==
    LET open == StripLeft(str, p + 1)
    IN  IF CharAt(str, open) = "("
        THEN LET first == ParseExpression(str, open, fold_case)
                 word == ExpectWord(str, first.pos)
             IN  IF ~first.ok THEN first
                 ELSE IF CharAt(str, first.pos) = ")"
                 THEN Returns(StripLeft(str, first.pos + 1), first.val)
                 ELSE IF ~word.ok THEN word
                 ELSE IF word.val # W_AND
                 THEN Throws(word.pos, "'AND' expected")
                 ELSE ParseAndItems(str, word.pos, fold_case, <<first.val>>)
        ELSE IF CharAt(str, open) = "!"
        THEN LET inner_at == StripLeft(str, open + 1)
                 inner == ParseExpression(str, inner_at, fold_case)
             IN  IF CharAt(str, inner_at) # "("
                 THEN Throws(inner_at, "'(' expected")
                 ELSE IF ~inner.ok THEN inner
                 ELSE CloseParen(str, inner.pos, NotSongFilter(inner.val))
        ELSE LET type == ExpectFilterType(str, open)
             IN  IF ~type.ok
                 THEN type
                 ELSE ParseTypedFilter(str, type.pos, type.val, fold_case)

\* assert(*s == '(') at the entry of ParseExpression (line 322): the cursor
\* of the first call, in the parse that starts at p, that is entered where
\* no '(' is (a set that is empty if every call is entered at a '(').  Up to
\* that call the parse runs the same with and without assert().
RECURSIVE AssertFailsAt(_, _, _)
RECURSIVE AssertFailsInAnd(_, _, _)

\* the calls that follow an item of an AND list: none unless AND comes next
AssertFailsAfter(str, item, fold_case) ==
    IF item.ok /\ CharAt(str, item.pos) # ")"
    THEN UNION { IF word.ok /\ word.val = W_AND
                 THEN AssertFailsInAnd(str, word.pos, fold_case)
                 ELSE {} :
                 word \in {ExpectWord(str, item.pos)} }
    ELSE {}

\* the items of a group from s = p on: the first one (line 327) and those of
\* the while (true) loop (line 340), which nothing has looked at
AssertFailsInAnd(str, p, fold_case) ==
    UNION { IF failed # {}
            THEN failed
            ELSE UNION { AssertFailsAfter(str, item, fold_case) :
                         item \in {ParseExpression(str, p, fold_case)} } :
            failed \in {AssertFailsAt(str, p, fold_case)} }

AssertFailsAt(str, p, fold_case) ==
    IF CharAt(str, p) # "("
    THEN {p}
    ELSE UNION { IF CharAt(str, open) = "("
                 THEN AssertFailsInAnd(str, open, fold_case)
                 ELSE IF CharAt(str, open) = "!"
                 THEN UNION { IF CharAt(str, inner_at) = "("
                              THEN AssertFailsAt(str, inner_at, fold_case)
                              ELSE {} :
                              inner_at \in {StripLeft(str, open + 1)} }
                 ELSE {} :
                 open \in {StripLeft(str, p + 1)} }

\* what the failed assert() leaves: the process is aborted with s = p
Aborts(p) == Throws(p, "Assertion `*s == '('' failed.")

----------------------------------------------------------------------------
(* SongFilter *)

\* the segments of a URI, split at its slashes
RECURSIVE UriSegments(_, _, _)
UriSegments(uri, p, segment) ==
    IF p > Len(uri) THEN <<segment>>
    ELSE IF uri[p] = "/" THEN <<segment>> \o UriSegments(uri, p + 1, <<>>)
    ELSE UriSegments(uri, p + 1, Append(segment, uri[p]))

\* uri_safe_local: no segment is empty or "..", so the URI is not empty and
\* has no leading, trailing or double slash
uri_safe_local(uri) ==
    \A i \in DOMAIN UriSegments(uri, 1, <<>>) :
        /\ UriSegments(uri, 1, <<>>)[i] # <<>>
        /\ UriSegments(uri, 1, <<>>)[i] # <<".", ".">>

\* the outcome of a SongFilter method that appends to and_filter: ok or the
\* message thrown, and and_filter as the method leaves it
Parsed(items) == [ok |-> TRUE, err |-> "", items |-> items]

ParseThrows(items, msg) == [ok |-> FALSE, err |-> msg, items |-> items]

\* for compatibility with MPD 0.20 and older, "fold_case" also switches on
\* "substring"
FlatStringFilter(value, fold_case) ==
    StringFilter(value, fold_case,
                 IF fold_case THEN "ANYWHERE" ELSE "FULL", FALSE, FALSE)

\* SongFilter::SongFilter(TagType tag, const char *value, bool fold_case)
NewSongFilter(tag, value, fold_case) ==
    <<TagSongFilter(tag, FlatStringFilter(value, fold_case))>>

\* SongFilter::Parse(const char *tag_string, const char *value, bool)
ParseFlat(items, tag_string, value, fold_case) ==
    LET tag == locate_parse_type(tag_string)
        time == ParseTimeStamp(value)
    IN  IF tag = TAG_NUM_OF_ITEM_TYPES
        THEN ParseThrows(items, "Unknown filter type")
        ELSE IF tag = LOCATE_TAG_BASE_TYPE
        THEN IF ~uri_safe_local(value)
             THEN ParseThrows(items, "Bad URI")
             ELSE Parsed(Append(items, BaseSongFilter(value)))
        ELSE IF tag = LOCATE_TAG_MODIFIED_SINCE
        THEN IF ~time.ok
             THEN ParseThrows(items, time.err)
             ELSE Parsed(Append(items, ModifiedSinceSongFilter(time.val)))
        ELSE IF tag = LOCATE_TAG_ADDED_SINCE
        THEN IF ~time.ok
             THEN ParseThrows(items, time.err)
             ELSE Parsed(Append(items, AddedSinceSongFilter(time.val)))
        ELSE IF tag = LOCATE_TAG_FILE_TYPE
        THEN Parsed(Append(items,
                 UriSongFilter(FlatStringFilter(value, fold_case))))
        ELSE Parsed(Append(items,
                 TagSongFilter(IF tag = LOCATE_TAG_ANY_TYPE
                               THEN TAG_NUM_OF_ITEM_TYPES
                               ELSE tag,
                               FlatStringFilter(value, fold_case))))

\* the do ... while (!args.empty()) loop of Parse(args, fold_case), entered
\* with args not empty and and_filter holding items
\* the loop of Parse without the look at what follows an expression
RECURSIVE ParseArgsLoop_IgnoresRest(_, _, _)
ParseArgsLoop_IgnoresRest(items, args, fold_case) ==
    IF CharAt(args[1], 1) = "("
    THEN LET f == ParseExpression(args[1], 1, fold_case)
         IN  IF ~f.ok
             THEN ParseThrows(items, f.err)
             ELSE IF Len(args) = 1
             THEN Parsed(Append(items, f.val))
             ELSE ParseArgsLoop_IgnoresRest(Append(items, f.val), Tail(args),
                                            fold_case)
    ELSE IF Len(args) < 2
    THEN ParseThrows(items, "Incorrect number of filter arguments")
    ELSE LET flat == ParseFlat(items, args[1], args[2], fold_case)
         IN  IF ~flat.ok \/ Len(args) = 2
             THEN flat
             ELSE ParseArgsLoop_IgnoresRest(flat.items, Tail(Tail(args)),
                                            fold_case)

RECURSIVE ParseArgsLoop(_, _, _)
ParseArgsLoop(items, args, fold_case) ==
    IF CharAt(args[1], 1) = "("
    THEN LET f == ParseExpression(args[1], 1, fold_case)
         IN  IF ~f.ok
             THEN ParseThrows(items, f.err)
             ELSE IF CharAt(args[1], f.pos) # NUL
             THEN ParseThrows(items, "Unparsed garbage after expression")
             ELSE IF Len(args) = 1
             THEN Parsed(Append(items, f.val))
             ELSE ParseArgsLoop(Append(items, f.val), Tail(args), fold_case)
    ELSE IF Len(args) < 2
    THEN ParseThrows(items, "Incorrect number of filter arguments")
    ELSE LET flat == ParseFlat(items, args[1], args[2], fold_case)
         IN  IF ~flat.ok \/ Len(args) = 2
             THEN flat
             ELSE ParseArgsLoop(flat.items, Tail(Tail(args)), fold_case)

\* SongFilter::Parse(std::span<const char *const> args, bool fold_case)
Parse(items, args, fold_case) ==
    IF args = <<>>
    THEN ParseThrows(items, "Incorrect number of filter arguments")
    ELSE ParseArgsLoop(items, args, fold_case)

HasFoldCase(items) ==
    \E i \in DOMAIN items :
        IF items[i].kind = "TagMatch" THEN items[i].filter.fold_case
        ELSE IF items[i].kind = "UriMatch" THEN items[i].filter.fold_case
        ELSE FALSE

HasOtherThanBase(items) == \E i \in DOMAIN items : items[i].kind # "Base"

\* a const char * that may be nullptr
NullPtr == [null |-> TRUE, value |-> <<>>]

Pointer(str) == [null |-> FALSE, value |-> str]

\* GetBase looking into the first child if that is an AND
GetBase_IntoAnd(items) ==
    LET inner == IF items # <<>> /\ items[1].kind = "And"
                 THEN items[1].items
                 ELSE items
        bases == {i \in DOMAIN inner : inner[i].kind = "Base"}
    IN  IF bases = {}
        THEN NullPtr
        ELSE Pointer(inner[CHOOSE i \in bases : \A j \in bases : i <= j].value)

GetBase(items) ==
    LET bases == {i \in DOMAIN items : items[i].kind = "Base"}
    IN  IF bases = {}
        THEN NullPtr
        ELSE Pointer(items[CHOOSE i \in bases : \A j \in bases : i <= j].value)

\* the iteration without the test for the end of the string after the slash
WithoutBasePrefixItem_KeepsEmpty(item, prefix) ==
    LET after == IF item.kind = "Base"
                 THEN StringAfterPrefixAt(item.value, 1, prefix)
                 ELSE 0
    IN  IF item.kind = "Base" /\ after # 0 /\ CharAt(item.value, after) = NUL
        THEN <<>>
        ELSE IF item.kind = "Base" /\ after # 0
                /\ CharAt(item.value, after) = "/"
        THEN <<BaseSongFilter(SubSeq(item.value, after + 1, Len(item.value)))>>
        ELSE <<Clone(item)>>

\* what one iteration of the loop of WithoutBasePrefix adds to the result
WithoutBasePrefixItem(item, prefix) ==
    LET after == IF item.kind = "Base"
                 THEN StringAfterPrefixAt(item.value, 1, prefix)
                 ELSE 0
    IN  IF item.kind = "Base" /\ after # 0 /\ CharAt(item.value, after) = NUL
        THEN <<>>
        ELSE IF item.kind = "Base" /\ after # 0
                /\ CharAt(item.value, after) = "/"
        THEN IF CharAt(item.value, after + 1) # NUL
             THEN <<BaseSongFilter(
                      SubSeq(item.value, after + 1, Len(item.value)))>>
             ELSE <<>>
        ELSE <<Clone(item)>>

RECURSIVE WithoutBasePrefixLoop(_, _, _, _)
WithoutBasePrefixLoop(items, i, prefix, out) ==
    IF i > Len(items)
    THEN out
    ELSE WithoutBasePrefixLoop(items, i + 1, prefix,
             out \o WithoutBasePrefixItem(items[i], prefix))

WithoutBasePrefix(items, prefix) == WithoutBasePrefixLoop(items, 1, prefix, <<>>)

----------------------------------------------------------------------------
(* Inputs *)

\* the most arguments of one call of Parse
MaxArgs == 3

\* the longest operand X of (prio >= X)
MaxOperandLen == 3

Sp == <<" ">>

Quoted(value) == <<"\"">> \o value \o <<"\"">>

Paren(body) == <<"(">> \o body \o <<")">>

W_title == <<"t", "i", "t", "l", "e">>
V_A == <<"A">>
V_AB == <<"A", "B">>
V_A_B == <<"A", "/", "B">>
V_A_slash == <<"A", "/">>
V_B == <<"B">>
V_x == <<"x">>
V_Rain == <<"R", "a", "i", "n">>
V_dotdot == <<".", ".">>

X_base(value) == Paren(W_base \o Sp \o Quoted(value))

X_string(name, op, value) == Paren(name \o Sp \o op \o Sp \o Quoted(value))

X_eq(name, value) == X_string(name, <<"=", "=">>, value)

X_and(a, b) == Paren(a \o Sp \o W_AND \o Sp \o b)

X_not(a) == Paren(<<"!">> \o a)

X_prio(operand) == Paren(W_prio \o Sp \o <<">", "=">> \o Sp \o operand)

\* arguments of Parse: expressions that parse, expressions that fail, and the
\* tags and values of flat pairs
Arguments ==
    { X_base(V_A),
      X_base(<<>>),
      X_and(X_base(V_A), X_eq(W_title, V_Rain)),
      X_not(X_eq(W_title, V_x)),
      X_eq(W_title, V_x),
      X_string(W_file, <<"e", "q", "_", "c", "i">>, V_x),
      X_base(V_A) \o Sp \o V_x,
      W_base,
      V_A,
      V_dotdot }

Prefixes == {<<>>, V_A}

\* arguments and prefixes that exercise WithoutBasePrefix
BaseValues == {<<>>, V_A, V_AB, V_A_B, V_A_slash}

BaseArguments ==
    {X_base(value) : value \in BaseValues}
    \cup {X_and(X_base(value), X_eq(W_title, V_Rain)) : value \in {V_A, V_A_B}}
    \cup {X_eq(W_title, V_x)}

BasePrefixes == {<<>>, V_A, V_A_slash, V_A_B, V_B}

\* the operands X of (prio >= X)
OperandChars == {"0", "2", "5", "6", "+", "-", "\"", " "}

Operands == UNION {[1..n -> OperandChars] : n \in 0..MaxOperandLen}

PriorityArguments == {X_prio(operand) : operand \in Operands}

\* tag names, values and expressions for the tag kinds Parse produces
W_PRIO == <<"P", "R", "I", "O">>
W_audioformat == <<"a", "u", "d", "i", "o", "f", "o", "r", "m", "a", "t">>
V_5 == <<"5">>

TagArguments ==
    { W_prio, W_PRIO, W_AudioFormat, W_audioformat, W_title, W_any,
      V_x, V_5,
      X_eq(W_title, V_x),
      X_eq(W_any, V_x),
      X_prio(V_5) }

\* the argument lists of at most n arguments from a set
ArgLists(arguments, n) == UNION {[1..k -> arguments] : k \in 0..n}

----------------------------------------------------------------------------
(* The SongFilter and its callers *)

NoCall ==
    [op |-> "new", args |-> <<>>, fold_case |-> FALSE, prefix |-> <<>>,
     before |-> <<>>, ok |-> TRUE, err |-> ""]

NoLex == [op |-> "none", from |-> 0, ok |-> TRUE, err |-> "", val |-> <<>>]

LexIdle ==
    /\ text = <<>>
    /\ cursor = 0
    /\ lex = NoLex

TAG_TITLE == tag_name_parse_i(W_Title)

\* a SongFilter as one of its two constructors leaves it
Init ==
    /\ and_filter \in
           {<<>>} \cup {NewSongFilter(TAG_TITLE, V_x, fc) : fc \in BOOLEAN}
    /\ call = NoCall
    /\ result = <<>>
    /\ LexIdle

\* filter.Parse(args, fold_case) on a SongFilter that was just constructed
ParseCall(lists) ==
    \E args \in lists, fold_case \in BOOLEAN :
        /\ call.op = "new"
        /\ LET r == Parse(and_filter, args, fold_case)
           IN  /\ and_filter' = r.items
               /\ call' = [op |-> "Parse", args |-> args,
                           fold_case |-> fold_case, prefix |-> <<>>,
                           before |-> and_filter, ok |-> r.ok, err |-> r.err]
        /\ UNCHANGED <<result, text, cursor, lex>>

\* filter.WithoutBasePrefix(prefix)
WithoutBasePrefixCall(prefixes) ==
    \E prefix \in prefixes :
        /\ result' = WithoutBasePrefix(and_filter, prefix)
        /\ call' = [op |-> "WithoutBasePrefix", args |-> <<>>,
                    fold_case |-> FALSE, prefix |-> prefix,
                    before |-> and_filter, ok |-> TRUE, err |-> ""]
        /\ UNCHANGED <<and_filter, text, cursor, lex>>

Next ==
    \/ ParseCall(ArgLists(Arguments, MaxArgs))
    \/ WithoutBasePrefixCall(Prefixes)

Spec == Init /\ [][Next]_vars

NextBase ==
    \/ ParseCall(ArgLists(BaseArguments, MaxArgs))
    \/ WithoutBasePrefixCall(BasePrefixes)

SpecBase == Init /\ [][NextBase]_vars

\* Parse of the one argument (prio >= X)
ParsePriority == ParseCall({<<argument>> : argument \in PriorityArguments})

SpecPriority == Init /\ [][ParsePriority]_vars

\* Parse of tag names in any case, flat and in expressions
ParseTags == ParseCall(ArgLists(TagArguments, MaxArgs))

SpecTags == Init /\ [][ParseTags]_vars

----------------------------------------------------------------------------
(* The lexical primitives on their own *)

\* n times the character ch
Repeat(ch, n) == [i \in 1..n |-> ch]

\* a quoted string: its text, the value between its quotes and what follows
QuotedCase(escaped, plain, closed) ==
    [input |-> <<"\"">> \o escaped.input \o Repeat("a", plain)
               \o (IF closed THEN <<"\"", " ">> ELSE <<>>),
     value |-> escaped.value \o Repeat("a", plain),
     closed |-> closed]

\* escape sequences and the characters they stand for
Escapes ==
    { [input |-> <<>>, value |-> <<>>],
      [input |-> <<"\\", "\"">>, value |-> <<"\"">>],
      [input |-> <<"\\", "\\", "'">>, value |-> <<"\\", "'">>] }

QuotedLengths == {0, 1, BufferSize - 2, BufferSize - 1, BufferSize, BufferSize + 1}

QuotedCases ==
    {QuotedCase(escaped, plain, closed) :
        escaped \in Escapes, plain \in QuotedLengths, closed \in BOOLEAN}

\* inputs of ExpectWord, and inputs of ExpectQuoted that do not start a
\* quoted string or end inside an escape sequence
WordInputs ==
    { <<>>, Sp \o W_title, W_title \o Sp \o V_x, <<"=", "=">>, <<"5">>,
      W_modified_since \o <<"\t", "\"">>, <<"a", "_", "b", "(">>,
      <<"'", "a", "\\">>, <<"'", "\"", "'", "a">> }

LexInputs == WordInputs \cup {c.input : c \in QuotedCases}

InitLex ==
    /\ and_filter = <<>>
    /\ call = NoCall
    /\ result = <<>>
    /\ text \in LexInputs
    /\ cursor = 1
    /\ lex = NoLex

Outcome(op, from, r) ==
    [op |-> op, from |-> from, ok |-> r.ok, err |-> r.err, val |-> r.val]

\* ExpectWord(s)
ExpectWordCall ==
    /\ lex.op = "none"
    /\ cursor' = ExpectWord(text, cursor).pos
    /\ lex' = Outcome("ExpectWord", cursor, ExpectWord(text, cursor))
    /\ UNCHANGED <<and_filter, call, result, text>>

\* ExpectQuoted(s)
ExpectQuotedCall ==
    /\ lex.op = "none"
    /\ cursor' = ExpectQuoted(text, cursor).pos
    /\ lex' = Outcome("ExpectQuoted", cursor, ExpectQuoted(text, cursor))
    /\ UNCHANGED <<and_filter, call, result, text>>

NextLex == ExpectWordCall \/ ExpectQuotedCall

SpecLex == InitLex /\ [][NextLex]_vars

\* ParseExpression on a string in memory: the characters of the string, its
\* terminating NUL and the bytes that lie behind it
Memory(str, behind) == str \o <<NUL>> \o behind

\* the position of the terminating NUL of the string that starts memory
Terminator(memory) ==
    CHOOSE i \in DOMAIN memory :
        memory[i] = NUL /\ \A j \in 1..(i - 1) : memory[j] # NUL

Prefixes_of(str) == {SubSeq(str, 1, n) : n \in 1..Len(str)}

\* expressions of every kind, and each of them cut short at every place
Expressions ==
    { X_and(X_base(V_A), X_eq(W_title, V_x)),
      X_not(X_prio(V_5)),
      X_string(W_file, <<"c", "o", "n", "t", "a", "i", "n", "s">>, V_x),
      X_string(W_AudioFormat, <<"=", "~">>, <<"4", ":", "1", ":", "2">>),
      Paren(W_modified_since \o Sp \o Quoted(<<"\\", "5">>)),
      Paren(X_base(V_A) \o Sp \o W_AND \o Sp \o W_title),
      Paren(Paren(X_base(V_A))) }

ExpressionInputs == UNION {Prefixes_of(expression) : expression \in Expressions}

\* what may lie behind the terminating NUL
Behind ==
    { <<>>,
      V_x,
      W_base \o Sp \o Quoted(V_B) \o <<")", ")">> }

Builds == {"assert", "NDEBUG"}

InitExpression ==
    /\ and_filter = <<>>
    /\ call = NoCall
    /\ result = <<>>
    /\ text \in {Memory(str, behind) : str \in ExpressionInputs, behind \in Behind}
    /\ cursor = 1
    /\ lex = NoLex

\* ParseExpression(s, fold_case), called where a '(' is, in a build with
\* assert() and in one without
ParseExpressionCall ==
    \E fold_case \in BOOLEAN, build \in Builds :
        /\ lex.op = "none"
        /\ CharAt(text, cursor) = "("
        /\ \E failed \in {AssertFailsAt(text, cursor, fold_case)} :
           \E r \in {IF build = "assert" /\ failed # {}
                     THEN Aborts(CHOOSE at \in failed : TRUE)
                     ELSE ParseExpression(text, cursor, fold_case)} :
               /\ cursor' = r.pos
               /\ lex' = Outcome("ParseExpression", cursor, r)
        /\ UNCHANGED <<and_filter, call, result, text>>

SpecExpression == InitExpression /\ [][ParseExpressionCall]_vars


----------------------------------------------------------------------------
(* What the claims speak of *)

\* a node and every node under it
RECURSIVE NodesUnder(_)
NodesUnder(node) ==
    {node} \cup
    (IF node.kind = "And"
     THEN UNION {NodesUnder(node.items[i]) : i \in DOMAIN node.items}
     ELSE IF node.kind = "Not" THEN NodesUnder(node.child)
     ELSE {})

\* every node under the root And whose children are items
NodesOf(items) == UNION {NodesUnder(items[i]) : i \in DOMAIN items}

ParseFailed == call.op = "Parse" /\ ~call.ok

ParseSucceeded == call.op = "Parse" /\ call.ok

\* the (title == "Rain") of an expression parsed with fold_case
TitleIsRain(fold_case) ==
    TagSongFilter(TAG_TITLE, StringFilter(V_Rain, fold_case, "FULL", FALSE, FALSE))

----------------------------------------------------------------------------
(* C1: Parse(args, fold_case) is all-or-nothing: when the call throws, the
   root And has the children it had before the call. *)
C1_ParseAllOrNothing == ParseFailed => and_filter = call.before

----------------------------------------------------------------------------
(* C2: every Base node of a SongFilter built by Parse, and of one returned by
   WithoutBasePrefix, has a prefix that is not empty, has no trailing slash
   and is URI-safe; a base operand that is not is rejected with "Bad URI"
   by the expression form and by the flat form. *)
SafeBasePrefix(value) ==
    /\ value # <<>>
    /\ value[Len(value)] # "/"
    /\ value[1] # "/"
    /\ \A i \in 1..(Len(value) - 1) : ~(value[i] = "/" /\ value[i + 1] = "/")
    /\ \A i \in 1..(Len(value) - 1) :
           ~ /\ value[i] = "." /\ value[i + 1] = "."
             /\ (i = 1 \/ value[i - 1] = "/")
             /\ (i + 1 = Len(value) \/ value[i + 2] = "/")

C2_BasePrefixSafe ==
    /\ \A node \in NodesOf(and_filter) \cup NodesOf(result) :
           node.kind = "Base" => SafeBasePrefix(node.value)
    /\ \A value \in {<<>>, V_dotdot, V_A_slash} :
           /\ call.op = "Parse"
           /\ call.args \in {<<X_base(value)>>, <<W_base, value>>}
           => ~call.ok /\ call.err = "Bad URI"

----------------------------------------------------------------------------
(* C3, as claimed: after Parse of the one argument ((base p) AND (title ==
   "Rain")) on an empty SongFilter, GetBase() is p, HasOtherThanBase() is
   true and WithoutBasePrefix(p) holds the title filter alone. *)
GroupedBaseParsed(p) ==
    /\ ParseSucceeded
    /\ call.before = <<>>
    /\ call.args = <<X_and(X_base(p), X_eq(W_title, V_Rain))>>

C3_GroupedBaseIsSeen ==
    \A p \in {V_A, V_A_B} :
        GroupedBaseParsed(p) =>
            /\ GetBase(and_filter) = Pointer(p)
            /\ HasOtherThanBase(and_filter)
            /\ WithoutBasePrefix(and_filter, p) = <<TitleIsRain(call.fold_case)>>

(* C3, amended: after that Parse the root has one child, the And of Base(p)
   and the title filter; GetBase() is nullptr, HasOtherThanBase() is true and
   WithoutBasePrefix(p) holds a clone of that And, Base(p) still in it. *)
C3_GroupedBaseIsNested ==
    \A p \in {V_A, V_A_B} :
        GroupedBaseParsed(p) =>
            /\ and_filter =
                   <<AndSongFilter(<<BaseSongFilter(p),
                                     TitleIsRain(call.fold_case)>>)>>
            /\ GetBase(and_filter) = NullPtr
            /\ HasOtherThanBase(and_filter)
            /\ WithoutBasePrefix(and_filter, p) = and_filter

C3_Witness == GroupedBaseParsed(V_A_B) /\ call.fold_case

----------------------------------------------------------------------------
(* C4: HasFoldCase() is true if and only if some TagMatch or UriMatch node
   anywhere under the root, nested ones included, has fold_case set. *)
C4_HasFoldCaseAnywhere ==
    HasFoldCase(and_filter) <=>
        \E node \in NodesOf(and_filter) :
            node.kind \in {"TagMatch", "UriMatch"} /\ node.filter.fold_case

----------------------------------------------------------------------------
(* C5: WithoutBasePrefix(prefix) returns, in the order of the children: for a
   child Base(p) with p = prefix \o r, nothing if r is empty or "/",
   Base(r without its first slash) if r starts with "/" and more follows, the
   child itself if r does not start with "/"; every other child itself.  The
   receiver is unchanged. *)
StartsWith(value, prefix) ==
    Len(prefix) <= Len(value) /\ SubSeq(value, 1, Len(prefix)) = prefix

Remainder(value, prefix) == SubSeq(value, Len(prefix) + 1, Len(value))

RewrittenChild(child, prefix) ==
    IF child.kind = "Base" /\ StartsWith(child.value, prefix)
    THEN LET r == Remainder(child.value, prefix)
         IN  IF r = <<>> \/ r = <<"/">> THEN <<>>
             ELSE IF Head(r) = "/" THEN <<BaseSongFilter(Tail(r))>>
             ELSE <<child>>
    ELSE <<child>>

RECURSIVE RewrittenChildren(_, _)
RewrittenChildren(children, prefix) ==
    IF children = <<>>
    THEN <<>>
    ELSE RewrittenChild(Head(children), prefix)
         \o RewrittenChildren(Tail(children), prefix)

C5_WithoutBasePrefixRewrites ==
    call.op = "WithoutBasePrefix" =>
        /\ result = RewrittenChildren(call.before, call.prefix)
        /\ and_filter = call.before

\* a Base dropped, a Base shortened and a Base kept by one call
C5_Witness ==
    /\ call.op = "WithoutBasePrefix"
    /\ call.prefix = V_A
    /\ call.before =
           <<BaseSongFilter(V_A_B), BaseSongFilter(V_A), BaseSongFilter(V_AB)>>
    /\ result = <<BaseSongFilter(V_B), BaseSongFilter(V_AB)>>

----------------------------------------------------------------------------
(* C6: WithoutBasePrefix("") returns the children the SongFilter has, and on
   a SongFilter whose only child is Base(p), WithoutBasePrefix(p) returns an
   empty root And. *)
C6_EmptyPrefixIsIdentity ==
    call.op = "WithoutBasePrefix" =>
        /\ call.prefix = <<>> => result = call.before
        /\ call.before = <<BaseSongFilter(call.prefix)>> => result = <<>>

----------------------------------------------------------------------------
(* C7, as claimed: ExpectQuoted on a closed quoted string returns the value
   between the quotes if it has at most 4096 bytes, and throws "Quoted value
   is too long" if it has more. *)
QuotedDone == lex.op = "ExpectQuoted"

QuotedWithin(limit) ==
    QuotedDone =>
        \A c \in QuotedCases :
            text = c.input /\ c.closed =>
                IF Len(c.value) <= limit
                THEN lex.ok /\ lex.val = c.value
                ELSE ~lex.ok /\ lex.err = "Quoted value is too long"

C7_QuotedUpTo4096 == QuotedWithin(BufferSize)

(* C7, amended: it returns the value if it has at most 4095 bytes, one less
   than its buffer, and throws "Quoted value is too long" if it has 4096
   bytes or more. *)
C7_QuotedUpTo4095 == QuotedWithin(BufferSize - 1)

C7_Witness ==
    /\ QuotedDone
    /\ lex.ok
    /\ Len(lex.val) = BufferSize - 1
    /\ lex.val[1] = "\""

----------------------------------------------------------------------------
(* C8, as claimed: ExpectWord and ExpectQuoted leave the caller's cursor
   where it was whenever they throw. *)
C8_CursorKeptOnFailure == lex.op # "none" /\ ~lex.ok => cursor = lex.from

(* C8, amended: ExpectWord leaves the cursor where it was when it throws;
   ExpectQuoted has moved it past the character it took for the quote (by
   that one character if it is no quote), and past what it read of the
   value, when it throws.  Both move it when they return. *)
C8_CursorOnFailure ==
    lex.op # "none" =>
        /\ lex.op = "ExpectWord" /\ ~lex.ok => cursor = lex.from
        /\ lex.op = "ExpectQuoted" /\ ~lex.ok => cursor > lex.from
        /\ lex.err = "Quoted string expected" => cursor = lex.from + 1
        /\ lex.ok => cursor > lex.from

C8_Witness ==
    /\ lex.op = "ExpectQuoted"
    /\ lex.err = "Closing quote not found"
    /\ cursor = Len(text) + 1
    /\ lex.from = 1

----------------------------------------------------------------------------
(* C9: a Parse that succeeds appends one child for each expression argument
   and one for each flat (tag, value) pair, in the order of the arguments;
   the call throws "Incorrect number of filter arguments" if args is empty
   or a flat tag is the last argument, and "Unparsed garbage after
   expression" if an expression argument goes on after its closing
   parenthesis.  The first argument that fails decides the error. *)

\* the arguments as the expressions, pairs and lone tag they form
RECURSIVE ArgItems(_)
ArgItems(args) ==
    IF args = <<>> THEN <<>>
    ELSE IF CharAt(Head(args), 1) = "("
    THEN <<[form |-> "expression", arg |-> Head(args), value |-> <<>>]>>
         \o ArgItems(Tail(args))
    ELSE IF Len(args) = 1
    THEN <<[form |-> "tag alone", arg |-> Head(args), value |-> <<>>]>>
    ELSE <<[form |-> "pair", arg |-> args[1], value |-> args[2]]>>
         \o ArgItems(Tail(Tail(args)))

\* the child that one item yields on its own, or the error it raises
ItemChild(item, fold_case) ==
    IF item.form = "tag alone"
    THEN ParseThrows(<<>>, "Incorrect number of filter arguments")
    ELSE IF item.form = "pair"
    THEN ParseFlat(<<>>, item.arg, item.value, fold_case)
    ELSE LET f == ParseExpression(item.arg, 1, fold_case)
         IN  IF ~f.ok THEN ParseThrows(<<>>, f.err)
             ELSE IF f.pos <= Len(item.arg)
             THEN ParseThrows(<<>>, "Unparsed garbage after expression")
             ELSE Parsed(<<f.val>>)

C9_OneChildPerArgument ==
    call.op = "Parse" =>
        LET items == ArgItems(call.args)
            child == [i \in DOMAIN items |-> ItemChild(items[i], call.fold_case)]
            failing == {i \in DOMAIN items : ~child[i].ok}
        IN  IF call.args = <<>>
            THEN ~call.ok /\ call.err = "Incorrect number of filter arguments"
            ELSE IF failing = {}
            THEN /\ call.ok
                 /\ and_filter =
                        call.before \o [i \in DOMAIN items |-> child[i].items[1]]
            ELSE /\ ~call.ok
                 /\ \E i \in failing :
                        /\ \A j \in failing : i <= j
                        /\ call.err = child[i].err

\* an expression, then a flat pair: two children appended to one
C9_Witness ==
    /\ ParseSucceeded
    /\ call.args = <<X_not(X_eq(W_title, V_x)), W_base, V_A>>
    /\ Len(call.before) = 1
    /\ Len(and_filter) = 3
    /\ and_filter[2].kind = "Not"
    /\ and_filter[3] = BaseSongFilter(V_A)

----------------------------------------------------------------------------
(* C10: Parse of (prio >= X) succeeds exactly when X is a bare decimal
   integer in 0..255 and then appends PriorityAtLeast(X); a quoted operand
   and an operand above 255 both fail with a BadPriority error; every
   PriorityAtLeast node has a threshold in 0..255. *)

\* the messages of the code that say the operand is no priority
BadPriority == {"Number expected", "Invalid priority value"}

RECURSIVE StripBlanks(_)
StripBlanks(operand) ==
    IF operand # <<>> /\ Head(operand) = " "
    THEN StripBlanks(Tail(operand))
    ELSE operand

IsOperandOfCall(operand) ==
    call.op = "Parse" /\ call.args = <<X_prio(operand)>>

AllDigits(str) == str # <<>> /\ \A i \in DOMAIN str : IsDigitASCII(str[i])

RECURSIVE NumberOf(_)
NumberOf(digits) ==
    IF digits = <<>>
    THEN 0
    ELSE 10 * NumberOf(SubSeq(digits, 1, Len(digits) - 1))
         + DigitValue(digits[Len(digits)])

IsQuotedNumber(str) ==
    /\ Len(str) >= 3
    /\ str[1] = "\"" /\ str[Len(str)] = "\""
    /\ AllDigits(SubSeq(str, 2, Len(str) - 1))

PriorityThresholdsInRange ==
    \A node \in NodesOf(and_filter) :
        node.kind = "Priority" => node.value \in 0..255

C10_BareDecimalOrBadPriority ==
    /\ PriorityThresholdsInRange
    /\ \A operand \in Operands :
           IsOperandOfCall(operand) =>
               LET x == StripBlanks(operand)
               IN  /\ call.ok <=> AllDigits(x) /\ NumberOf(x) <= 255
                   /\ call.ok =>
                          and_filter = Append(call.before,
                                              PrioritySongFilter(NumberOf(x)))
                   /\ IsQuotedNumber(x) \/ (AllDigits(x) /\ NumberOf(x) > 255)
                      => ~call.ok /\ call.err \in BadPriority

----------------------------------------------------------------------------
(* C11: after Parse, every TagMatch node of the tree has a tag that is a
   real tag (below TAG_NUM_OF_ITEM_TYPES) or ANY (TAG_NUM_OF_ITEM_TYPES);
   a flat pair whose tag name is "prio" or "AudioFormat", in any case, is
   not accepted as a tag match and yields no TagMatch that carries
   LOCATE_TAG_PRIORITY or LOCATE_TAG_AUDIO_FORMAT. *)
TagKinds == 0..TAG_NUM_OF_ITEM_TYPES

C11_TagMatchHasTagKind ==
    \A node \in NodesOf(and_filter) :
        node.kind = "TagMatch" => node.tag \in TagKinds

----------------------------------------------------------------------------
(* C12: on a NUL-terminated input that begins with "(", ParseExpression
   reads no byte behind the terminating NUL, whether it succeeds or fails;
   every call moves the cursor on, and the parse ends by returning a node
   or by throwing. *)
ExpressionDone == lex.op = "ParseExpression"

\* the parse returned or threw: no assert() ended the process
EndsByReturnOrThrow == lex.err # Aborts(0).err

\* the cursor is the highest position the parse has read or, one further,
\* what ExpectQuoted took for a quote and found to be none
NoReadBehindTerminator ==
    \/ cursor <= Terminator(text)
    \/ /\ cursor = Terminator(text) + 1
       /\ lex.err = "Quoted string expected"

\* the outcome is that of the same string with other bytes behind it
SameWhateverLiesBehind ==
    \A behind \in Behind :
        \E fold_case \in BOOLEAN :
            \E r \in {ParseExpression(
                          Memory(SubSeq(text, 1, Terminator(text) - 1), behind),
                          lex.from, fold_case)} :
                lex = Outcome("ParseExpression", lex.from, r)

C12_StaysInsideTheString ==
    ExpressionDone =>
        /\ EndsByReturnOrThrow
        /\ NoReadBehindTerminator
        /\ SameWhateverLiesBehind
        /\ cursor > lex.from

====
